---- MODULE Spec2Model ----
(***************************************************************************)
(* Changes-trie input builder of primitives/state-machine                  *)
(* (changes_trie/build.rs): prepare_input, prepare_extrinsics_input,       *)
(* prepare_extrinsics_input_inner and prepare_digest_input, run as a state *)
(* machine over one invocation.                                            *)
(*                                                                         *)
(* Encodings.  Option<T>: None is <<>>, Some(x) is <<x>>.  Storage keys    *)
(* are single bytes (naturals, byte order = numeric order).  A BTreeMap is *)
(* a function on its key set; iterating it visits the keys ascending.      *)
(* A scope is 0 (top storage, storage_key = None) or a child storage key.  *)
(***************************************************************************)
EXTENDS Integers, Sequences, FiniteSets, TLC

\* ---------------------------------------------------------------- bounds
\* the pending block is at most zero + MaxBlock
MaxBlock == 4
\* index entries (trie entries and cached keys) over all historical blocks
MaxStorageEntries == 2
\* overlay entries over both change sets and all scopes
MaxOverlayEntries == 2

Keys == {1, 2}
ChildKeys == {1, 2}
ExtrinsicIds == {0, 1}
Zeros == {0, 1}
DigestIntervals == {2}
DigestLevels == {1, 2}
TOP == 0
Scopes == {TOP} \cup ChildKeys

None == <<>>
Some(x) == <<x>>
IsSome(o) == o # <<>>

\* ------------------------------------------------------ generic helpers
Min(S) == CHOOSE x \in S : \A y \in S : x <= y
Max(S) == CHOOSE x \in S : \A y \in S : y <= x

\* ascending enumeration of a finite set of naturals (BTreeMap/BTreeSet order)
RECURSIVE SortedSeq(_)
SortedSeq(S) == IF S = {} THEN <<>> ELSE <<Min(S)>> \o SortedSeq(S \ {Min(S)})

\* insertion of x into an ascending sequence, duplicates kept
RECURSIVE InsertSorted(_, _)
InsertSorted(s, x) ==
  IF s = <<>> THEN <<x>>
  ELSE IF x <= Head(s) THEN <<x>> \o s
  ELSE <<Head(s)>> \o InsertSorted(Tail(s), x)

\* Vec::sort_unstable on a Vec<u32>
RECURSIVE sort_unstable(_)
sort_unstable(s) ==
  IF s = <<>> THEN <<>> ELSE InsertSorted(sort_unstable(Tail(s)), Head(s))

Range(s) == {s[i] : i \in 1..Len(s)}
Last(s) == s[Len(s)]

RECURSIVE Pow(_, _)
Pow(b, e) == IF e = 0 THEN 1 ELSE b * Pow(b, e - 1)

\* all subsets of U with at most n elements
RECURSIVE SubsetsUpTo(_, _)
SubsetsUpTo(U, n) ==
  IF n = 0 THEN {{}}
  ELSE LET P == SubsetsUpTo(U, n - 1) IN P \cup {p \cup {a} : p \in P, a \in U}

\* ------------------------------------- configuration & digest arithmetic
\* ConfigurationRange { config: { digest_interval, digest_levels }, zero, end }
\* (the arithmetic lives in changes_trie/mod.rs and build_iterator.rs)

\* variant: the first level whose step divides the distance is taken
digest_level_at_blockLowest(c, block) ==
  IF block <= c.zero THEN 0
  ELSE LET Ls == {L \in 1..c.digest_levels :
                    (block - c.zero) % Pow(c.digest_interval, L) = 0}
       IN IF Ls = {} THEN 0 ELSE Min(Ls)

\* level of the digest built at `block`: the greatest L in 1..digest_levels
\* with (block - zero) a multiple of digest_interval^L; 0 when `block` is not
\* a digest block; block zero and earlier blocks are never digest blocks
digest_level_at_block(c, block) ==
  IF block <= c.zero THEN 0
  ELSE LET Ls == {L \in 1..c.digest_levels :
                    (block - c.zero) % Pow(c.digest_interval, L) = 0}
       IN IF Ls = {} THEN 0 ELSE Max(Ls)

\* the max-level digest window containing `block`: its end is the first
\* multiple of digest_interval^digest_levels at or after `block`, relative to zero
next_max_level_digest_range(c, block) ==
  IF block <= c.zero THEN None
  ELSE LET m == Pow(c.digest_interval, c.digest_levels)
           n == ((block - c.zero) + m - 1) \div m
       IN Some(<<c.zero + (n - 1) * m + 1, c.zero + n * m>>)

\* blocks start, start + step, ... below `block`, cut at the first one that is
\* not below `end`
RECURSIVE BlocksRange(_, _, _, _)
BlocksRange(start, block, step, end) ==
  IF start >= block \/ start >= end THEN <<>>
  ELSE <<start>> \o BlocksRange(start + step, block, step, end)

\* variant: every step starts again at the beginning of the window
RECURSIVE DigestBuildRangesFromStart(_, _, _, _, _, _)
DigestBuildRangesFromStart(block, end, interval, max_step, step, last) ==
  IF step = 0 THEN <<>>
  ELSE BlocksRange(block - max_step * interval + step, block, step, end)
         \o DigestBuildRangesFromStart(block, end, interval, max_step,
                                       step \div interval, last)

\* the ranges of the digest build iterator, from the coarsest step down to 1:
\* the sub-digest blocks of the window first, then the blocks after the last
\* one returned, which no digest below `end` covers
RECURSIVE DigestBuildRanges(_, _, _, _, _, _)
DigestBuildRanges(block, end, interval, max_step, step, last) ==
  IF step = 0 THEN <<>>
  ELSE LET start == IF IsSome(last) THEN last[1] + step
                    ELSE block - max_step * interval + step
           taken == BlocksRange(start, block, step, end)
           new_last == IF taken = <<>> THEN last ELSE Some(Last(taken))
       IN taken \o DigestBuildRanges(block, end, interval, max_step,
                                     step \div interval, new_last)

\* digest_build_iterator(config, block).collect()
digest_build_iterator(c, block) ==
  LET L == digest_level_at_block(c, block)
  IN IF L = 0 THEN <<>>
     ELSE LET max_step == Pow(c.digest_interval, L - 1)
              end == IF IsSome(c.end) THEN c.end[1] ELSE block
          IN DigestBuildRanges(block, end, c.digest_interval, max_step, max_step, None)

\* ---------------------------------------------------------- overlay model
\* OverlayedChanges { prospective, committed : OverlayedChangeSet }
\* OverlayedChangeSet { top : key -> OverlayedValue,
\*                      children : storage_key -> (key -> OverlayedValue, ChildInfo) }
\* OverlayedValue { value : Option<bytes>, extrinsics : Option<set<u32>> }
ChangeSetNames == {"committed", "prospective"}
OverlayedValues ==
  [value : {None, Some(200)},
   extrinsics : {None} \cup {Some(S) : S \in (SUBSET ExtrinsicIds) \ {{}}}]

\* the ChildInfo the overlay keeps next to the child's map
ChildInfoOf(sk) == [unique_id |-> sk]

\* the map of scope `sc` in change set `cs`: None when the change set has no
\* such child (changes.<cs>.children.get(sk).map(|c| &c.0)), Some(map) otherwise
ScopeMap(cs, sc) ==
  IF sc = TOP THEN Some(cs.top)
  ELSE IF sc \in DOMAIN cs.children THEN Some(cs.children[sc].map) ELSE None

\* Option<&OverlayedValue> of `k` in scope `sc`, prospective before committed
OverlayEntry(ch, sc, k) ==
  LET p == ScopeMap(ch.prospective, sc)
      c == ScopeMap(ch.committed, sc)
  IN IF IsSome(p) /\ k \in DOMAIN p[1] THEN Some(p[1][k])
     ELSE IF IsSome(c) /\ k \in DOMAIN c[1] THEN Some(c[1][k])
     ELSE None

\* changes.storage(k): None without an entry, Some(None) for a deletion,
\* Some(Some(v)) for a write
storage(ch, k) ==
  LET e == OverlayEntry(ch, TOP, k) IN IF IsSome(e) THEN Some(e[1].value) ELSE None

\* changes.child_storage(sk, k)
child_storage(ch, sk, k) ==
  LET e == OverlayEntry(ch, sk, k) IN IF IsSome(e) THEN Some(e[1].value) ELSE None

\* changes.child_info(sk), looked up across both change sets
child_info(ch, sk) ==
  IF sk \in DOMAIN ch.prospective.children THEN Some(ch.prospective.children[sk].info)
  ELSE IF sk \in DOMAIN ch.committed.children THEN Some(ch.committed.children[sk].info)
  ELSE None

\* .map(|v| v.is_some()).unwrap_or_default() on an Option<Option<bytes>>
IsSomeOrDefault(o) == IsSome(o) /\ IsSome(o[1])

\* ------------------------------------------------------------------ state
VARIABLES
  config,               \* ConfigurationRange: zero, digest_interval, digest_levels, end
  parent,               \* AnchorBlockId.number
  changes,              \* OverlayedChanges
  backend,              \* answers of the backend read so far: <<scope, key>> -> answer
  roots,                \* historical storage read so far: block -> record
  pc,                   \* position in prepare_input
  ext_scopes,           \* prepare_extrinsics_input: scopes still to fold
  ext_scope,            \* scope of the running prepare_extrinsics_input_inner
  ext_entries,          \* its entries still to fold
  ext_map,              \* its accumulator
  children_result,      \* prepare_extrinsics_input: ChildIndex -> pairs
  extrinsics_input,     \* prepare_extrinsics_input: pairs of the top storage
  probes,               \* exists_storage / exists_child_storage calls, in order
  block_for_digest,     \* prepare_digest_input
  digest_input_blocks,  \* the covered blocks
  digest_pos,           \* blocks of digest_input_blocks folded so far
  map,                  \* digest accumulator of the top storage
  child_map,            \* digest accumulators of the children: ChildIndex -> map
  root_calls,           \* storage.root calls, in order
  cache_calls,          \* storage.with_cached_changed_keys calls, in order
  opened,               \* tries opened: <<block, scope>>, in order
  result,               \* what prepare_input returns, None while running
  rpc_call,             \* the method of the state API that is exercised
  rpc_args,             \* the arguments of the call made, None before the call
  rpc_result,           \* what the call returned, None before the call
  chain,                \* the blocks imported after genesis: the keys each one touches
  subscription,         \* subscribe_storage: None, or the keys asked for and the best block
  notifications         \* what the subscriber's transport has received, in order

vars == <<config, parent, changes, backend, roots, pc, ext_scopes, ext_scope,
          ext_entries, ext_map, children_result, extrinsics_input, probes,
          block_for_digest, digest_input_blocks, digest_pos, map, child_map,
          root_calls, cache_calls, opened, result, rpc_call, rpc_args, rpc_result,
          chain, subscription, notifications>>

ext_vars == <<ext_scopes, ext_scope, ext_entries, ext_map, children_result,
              extrinsics_input>>
digest_vars == <<block_for_digest, digest_input_blocks, digest_pos, map, child_map,
                 root_calls, cache_calls, opened, roots>>
input_vars == <<config, parent, changes>>
rpc_vars == <<rpc_call, rpc_args, rpc_result, chain, subscription, notifications>>
builder_vars == <<config, parent, changes, backend, roots, pc, ext_scopes, ext_scope,
                  ext_entries, ext_map, children_result, extrinsics_input, probes,
                  block_for_digest, digest_input_blocks, digest_pos, map, child_map,
                  root_calls, cache_calls, opened, result>>

\* let number = parent.number.clone() + One::one();
number == parent + 1

EmptyMap == [k \in {} |-> 0]
Put(m, k, x) == (k :> x) @@ m

\* ------------------------------------------------------ extrinsic-index pass
\* children_keys: the child storage keys of both change sets
children_keys(ch) == (DOMAIN ch.prospective.children) \cup (DOMAIN ch.committed.children)

\* the entries of one map, keys ascending
MapEntries(om) ==
  IF om = None THEN <<>>
  ELSE LET ks == SortedSeq(DOMAIN om[1])
       IN [i \in 1..Len(ks) |-> [key |-> ks[i], v |-> om[1][ks[i]]]]

\* committed entries, then prospective entries, those without extrinsics dropped
ScopeEntries(ch, sc) ==
  LET HasExtrinsics(e) == IsSome(e.v.extrinsics)
  IN SelectSeq(MapEntries(ScopeMap(ch.committed, sc))
                 \o MapEntries(ScopeMap(ch.prospective, sc)), HasExtrinsics)

\* variant: the backend is asked about every vacant key
NeedsBackendProbeAlways(ch, sc, k) == TRUE

\* the temporary-value test of a vacant key: TRUE when the overlay's final value
\* is not Some and the backend has to say whether the key existed
NeedsBackendProbe(ch, sc, k) ==
  IF sc # TOP
  THEN ~IsSomeOrDefault(child_storage(ch, sc, k)) /\ IsSome(child_info(ch, sc))
  ELSE ~IsSomeOrDefault(storage(ch, k))

\* Entry::Vacant: insert (ExtrinsicIndex { block, key }, extrinsics)
VacantInsert(m, block, k, v) ==
  Put(m, k, [index |-> [block |-> block, key |-> k],
             value |-> SortedSeq(v.extrinsics[1])])

\* variant: the answer of the backend is ignored
ProbedInsertAlways(m, block, k, v, exists) == VacantInsert(m, block, k, v)

\* a vacant key whose final value is not Some: kept only if the backend says
\* that it existed (return Ok(map) otherwise)
ProbedInsert(m, block, k, v, exists) ==
  IF exists = "true" THEN VacantInsert(m, block, k, v) ELSE m

\* variant: the list is extended and left as it is
OccupiedExtendUnsorted(m, k, v) ==
  [m EXCEPT ![k].value = @ \o SortedSeq(v.extrinsics[1])]

\* Entry::Occupied: extend the list and sort_unstable it
OccupiedExtend(m, k, v) ==
  [m EXCEPT ![k].value = sort_unstable(@ \o SortedSeq(v.extrinsics[1]))]

\* pairs.into_iter().map(|(_, (k, v))| InputPair::<kind>(k, v))
MapPairs(m, kind) ==
  LET ks == SortedSeq(DOMAIN m)
  IN [i \in 1..Len(ks) |-> [kind |-> kind, index |-> m[ks[i]].index,
                            value |-> m[ks[i]].value]]

ChildIndex(block, sk) == [block |-> block, storage_key |-> sk]

\* Err(String): the message and the block it names (0 when it names none)
Err(msg, b) ==
  [ok |-> FALSE, err |-> [msg |-> msg, block |-> b], top |-> <<>>, children |-> <<>>,
   blocks |-> <<>>]

BackendAnswers == {"true", "false", "err"}

\* prepare_extrinsics_input: the next scope, children ascending and the top last
ExtNextScope ==
  /\ pc = "extrinsics"
  /\ ext_scopes # <<>>
  /\ ext_scope' = Head(ext_scopes)
  /\ ext_scopes' = Tail(ext_scopes)
  /\ ext_entries' = ScopeEntries(changes, Head(ext_scopes))
  /\ ext_map' = EmptyMap
  /\ pc' = "ext_fold"
  /\ UNCHANGED <<rpc_vars, input_vars, backend, children_result, extrinsics_input, probes,
                 digest_vars, result>>

\* one step of the try_fold of prepare_extrinsics_input_inner
ExtFoldEntry ==
  /\ pc = "ext_fold"
  /\ ext_entries # <<>>
  /\ LET k == Head(ext_entries).key
         v == Head(ext_entries).v
     IN /\ ext_entries' = Tail(ext_entries)
        /\ IF k \in DOMAIN ext_map
           THEN /\ ext_map' = OccupiedExtend(ext_map, k, v)
                /\ UNCHANGED <<backend, probes, pc, result>>
           ELSE IF NeedsBackendProbe(changes, ext_scope, k)
           THEN \E r \in BackendAnswers :
                  /\ <<ext_scope, k>> \in DOMAIN backend => r = backend[<<ext_scope, k>>]
                  /\ backend' = Put(backend, <<ext_scope, k>>, r)
                  /\ probes' = Append(probes, [scope |-> ext_scope, key |-> k, exists |-> r])
                  /\ IF r = "err"
                     THEN /\ pc' = "done"
                          /\ result' = Some(Err("backend", 0))
                          /\ UNCHANGED ext_map
                     ELSE /\ ext_map' = ProbedInsert(ext_map, number, k, v, r)
                          /\ UNCHANGED <<pc, result>>
           ELSE /\ ext_map' = VacantInsert(ext_map, number, k, v)
                /\ UNCHANGED <<backend, probes, pc, result>>
  /\ UNCHANGED <<rpc_vars, input_vars, ext_scopes, ext_scope, children_result, extrinsics_input,
                 digest_vars>>

\* the fold of a scope is over: children_result.insert(child_index, iter), or top
ExtScopeDone ==
  /\ pc = "ext_fold"
  /\ ext_entries = <<>>
  /\ IF ext_scope = TOP
     THEN /\ extrinsics_input' = MapPairs(ext_map, "ExtrinsicIndex")
          /\ UNCHANGED children_result
     ELSE /\ children_result' = Put(children_result, ChildIndex(number, ext_scope),
                                    MapPairs(ext_map, "ExtrinsicIndex"))
          /\ UNCHANGED extrinsics_input
  /\ pc' = IF ext_scopes = <<>> THEN "digest" ELSE "extrinsics"
  /\ UNCHANGED <<rpc_vars, input_vars, backend, ext_scopes, ext_scope, ext_entries, ext_map,
                 probes, digest_vars, result>>

\* ------------------------------------------------------ historical storage
\* What the Storage holds for one block: the answer of root(), whether the
\* build cache knows the root, the cached changed keys, and the entries of the
\* block's changes trie and of its child tries under prefix(block).
\* A trie entry: the scope whose trie holds it (TOP: the block's changes trie,
\* sk: the child trie the ChildIndex of sk points to), the prefix it is under,
\* the key it decodes to (ChildIndex: the storage key) and whether it decodes.
\* A cache item: Option<storage_key> and a changed key; key 0 stands for a child
\* that the cache lists with no other key.
TrieEntries ==
  [scope : Scopes, kind : {"ExtrinsicIndex", "DigestIndex"}, key : Keys, ok : {TRUE}]
    \cup [scope : Scopes, kind : {"ExtrinsicIndex", "DigestIndex"}, key : {0}, ok : {FALSE}]
    \cup [scope : {TOP}, kind : {"ChildIndex"}, key : ChildKeys, ok : BOOLEAN]

CacheItems == [scope : Scopes, key : Keys] \cup [scope : ChildKeys, key : {0}]

\* a trie holds one value per encoded key
TrieOk(t) ==
  \A e1 \in t, e2 \in t :
    (e1.scope = e2.scope /\ e1.kind = e2.kind /\ e1.key = e2.key) => e1 = e2

AllTries == {t \in SubsetsUpTo(TrieEntries, MaxStorageEntries) : TrieOk(t)}
AllCaches == SubsetsUpTo(CacheItems, MaxStorageEntries)

TriesUpTo(n) == {t \in AllTries : Cardinality(t) <= n}
CachesUpTo(n) == {c \in AllCaches : Cardinality(c) <= n}

\* the records of one block that hold at most n index entries
StorageRecords(n) ==
  {[root |-> r, cached |-> FALSE, cache |-> {}, trie |-> {}] : r \in {"none", "err"}}
    \cup {[root |-> "some", cached |-> FALSE, cache |-> {}, trie |-> t] : t \in TriesUpTo(n)}
    \cup UNION {{[root |-> "some", cached |-> TRUE, cache |-> ca, trie |-> t] :
                   t \in TriesUpTo(n - Cardinality(ca))} : ca \in CachesUpTo(n)}

RecordsUpTo == [n \in 0..MaxStorageEntries |-> StorageRecords(n)]

\* index entries of the storage read so far
StorageUsed(rs) ==
  LET RECURSIVE Sum(_)
      Sum(B) == IF B = {} THEN 0
                ELSE LET b == Min(B)
                     IN Cardinality(rs[b].cache) + Cardinality(rs[b].trie) + Sum(B \ {b})
  IN Sum(DOMAIN rs)

\* ---------------------------------------------------------------- digest pass
\* variant: the covered block is pushed without the is_dup_block test
insert_to_mapNoDupTest(m, block, digest_build_block, key) ==
  IF key \in DOMAIN m
  THEN [m EXCEPT ![key].value = Append(@, digest_build_block)]
  ELSE Put(m, key, [index |-> [block |-> block, key |-> key],
                    value |-> <<digest_build_block>>])

\* variant: a new DigestIndex carries the covered block
insert_to_mapStampCovered(m, block, digest_build_block, key) ==
  IF key \in DOMAIN m
  THEN (IF Last(m[key].value) = digest_build_block THEN m
        ELSE [m EXCEPT ![key].value = Append(@, digest_build_block)])
  ELSE Put(m, key, [index |-> [block |-> digest_build_block, key |-> key],
                    value |-> <<digest_build_block>>])

\* the closure insert_to_map of prepare_digest_input
insert_to_map(m, block, digest_build_block, key) ==
  IF key \in DOMAIN m
  THEN LET is_dup_block == Len(m[key].value) > 0 /\ Last(m[key].value) = digest_build_block
       IN IF is_dup_block THEN m
          ELSE [m EXCEPT ![key].value = Append(@, digest_build_block)]
  ELSE Put(m, key, [index |-> [block |-> block, key |-> key],
                    value |-> <<digest_build_block>>])

\* insert_to_map for every key of a scan or of a cached key set
RECURSIVE InsertKeys(_, _, _, _)
InsertKeys(m, block, digest_build_block, ks) ==
  IF ks = {} THEN m
  ELSE InsertKeys(insert_to_map(m, block, digest_build_block, Min(ks)), block,
                  digest_build_block, ks \ {Min(ks)})

\* child_map.entry(child_index).or_default()
OrDefault(cm, ci) == IF ci \in DOMAIN cm THEN cm ELSE Put(cm, ci, EmptyMap)

\* variant: the scan does not stay in the trie of `sc`
ScanKeysAnyTrie(trie, sc, kind) ==
  {e.key : e \in {x \in trie : x.kind = kind /\ x.ok}}

\* variant: an entry is taken whether it decodes or not
ScanKeysUndecoded(trie, sc, kind) ==
  {e.key : e \in {x \in trie : x.scope = sc /\ x.kind = kind}}

\* for_keys_with_prefix on the trie of `sc`: the keys of the entries that decode
ScanKeys(trie, sc, kind) ==
  {e.key : e \in {x \in trie : x.scope = sc /\ x.kind = kind /\ x.ok}}

\* the callback of with_cached_changed_keys: every (storage_key, changed_keys)
\* of the cache goes to the top map or to the child's map
RECURSIVE PopulateFromCache(_, _, _, _, _)
PopulateFromCache(st, block, digest_build_block, cache, scopes) ==
  IF scopes = {} THEN st
  ELSE LET sc == Min(scopes)
           ks == {i.key : i \in {x \in cache : x.scope = sc /\ x.key # 0}}
           ci == ChildIndex(block, sc)
           next ==
             IF sc = TOP
             THEN [st EXCEPT !.map = InsertKeys(@, block, digest_build_block, ks)]
             ELSE [st EXCEPT !.child_map =
                     [OrDefault(@, ci) EXCEPT ![ci] =
                        InsertKeys(OrDefault(st.child_map, ci)[ci], block,
                                   digest_build_block, ks)]]
       IN PopulateFromCache(next, block, digest_build_block, cache, scopes \ {sc})

\* the two scans of one trie: ExtrinsicIndex prefix, then DigestIndex prefix
ScanTrie(m, block, digest_build_block, trie, sc) ==
  InsertKeys(InsertKeys(m, block, digest_build_block,
                        ScanKeys(trie, sc, "ExtrinsicIndex")),
             block, digest_build_block, ScanKeys(trie, sc, "DigestIndex"))

\* children_roots: the storage keys of the ChildIndex entries that decode
children_roots(trie) == ScanKeys(trie, TOP, "ChildIndex")

\* the child tries of children_roots, storage keys ascending
RECURSIVE ScanChildren(_, _, _, _, _)
ScanChildren(cm, block, digest_build_block, trie, sks) ==
  IF sks = {} THEN cm
  ELSE LET sk == Min(sks)
           ci == ChildIndex(block, sk)
           cm1 == OrDefault(cm, ci)
       IN ScanChildren([cm1 EXCEPT ![ci] = ScanTrie(@, block, digest_build_block, trie, sk)],
                       block, digest_build_block, trie, sks \ {sk})

\* the trie walk of one covered block
PopulateFromTrie(st, block, digest_build_block, trie) ==
  [map |-> ScanTrie(st.map, block, digest_build_block, trie, TOP),
   child_map |-> ScanChildren(st.child_map, block, digest_build_block, trie,
                              children_roots(trie))]

\* variant: the trie is walked although the cache delivered the keys
DigestBlockStepCacheAndTrie(st, block, digest_build_block, rec) ==
  PopulateFromTrie(IF rec.cached
                   THEN PopulateFromCache(st, block, digest_build_block, rec.cache,
                                          {i.scope : i \in rec.cache})
                   ELSE st,
                   block, digest_build_block, rec.trie)

\* one iteration of the try_fold over digest_input_blocks, the root being known
DigestBlockStep(st, block, digest_build_block, rec) ==
  IF rec.cached
  THEN PopulateFromCache(st, block, digest_build_block, rec.cache,
                         {i.scope : i \in rec.cache})
  ELSE PopulateFromTrie(st, block, digest_build_block, rec.trie)

\* the tries one iteration opens
TriesOpened(digest_build_block, rec) ==
  IF rec.cached THEN <<>>
  ELSE <<<<digest_build_block, TOP>>>>
         \o [i \in 1..Cardinality(children_roots(rec.trie)) |->
               <<digest_build_block, SortedSeq(children_roots(rec.trie))[i]>>]

\* variant: the window is computed from block 0 instead of config.zero
BlockForDigestFromGenesis(c, block) ==
  LET build_skewed_digest == c.end = Some(block)
      r == next_max_level_digest_range([c EXCEPT !.zero = 0], block)
  IN IF build_skewed_digest
     THEN (IF IsSome(r) THEN r[1][2] ELSE block)
     ELSE block

\* variant: the end of the max-level window is used whatever config.end is
BlockForDigestAlwaysSkewed(c, block) ==
  LET r == next_max_level_digest_range(c, block)
  IN IF IsSome(r) THEN r[1][2] ELSE block

\* variant: the digest is always enumerated at the pending block
BlockForDigestUnskewed(c, block) == block

\* build_skewed_digest and block_for_digest
BlockForDigest(c, block) ==
  LET build_skewed_digest == c.end = Some(block)
      r == next_max_level_digest_range(c, block)
  IN IF build_skewed_digest
     THEN (IF IsSome(r) THEN r[1][2] ELSE block)
     ELSE block

\* variant: a missing root is read as the root of an empty trie
RootErrorLenient(rec, digest_build_block) ==
  IF rec.root = "err" THEN Some(Err("storage", digest_build_block)) ELSE None

\* storage.root(parent, digest_build_block)? and the ok_or_else that follows:
\* the error the iteration returns, None when the root is there
RootError(rec, digest_build_block) ==
  IF rec.root = "err" THEN Some(Err("storage", digest_build_block))
  ELSE IF rec.root = "none"
  THEN Some(Err("No changes trie root for block", digest_build_block))
  ELSE None

DigestStart ==
  /\ pc = "digest"
  /\ block_for_digest' = BlockForDigest(config, number)
  /\ digest_input_blocks' = digest_build_iterator(config, BlockForDigest(config, number))
  /\ digest_pos' = 0
  /\ pc' = "digest_fold"
  /\ UNCHANGED <<rpc_vars, input_vars, backend, ext_vars, probes, map, child_map, root_calls,
                 cache_calls, opened, roots, result>>

DigestFoldBlock ==
  /\ pc = "digest_fold"
  /\ digest_pos < Len(digest_input_blocks)
  /\ LET b == digest_input_blocks[digest_pos + 1]
     IN \E rec \in RecordsUpTo[MaxStorageEntries - StorageUsed(roots)] :
          /\ b \in DOMAIN roots => rec = roots[b]
          /\ roots' = Put(roots, b, rec)
          /\ root_calls' = Append(root_calls, b)
          /\ IF IsSome(RootError(rec, b))
             THEN /\ pc' = "done"
                  /\ result' = RootError(rec, b)
                  /\ UNCHANGED <<digest_pos, map, child_map, cache_calls, opened>>
             ELSE /\ cache_calls' = Append(cache_calls, b)
                  /\ opened' = opened \o TriesOpened(b, rec)
                  /\ map' = DigestBlockStep([map |-> map, child_map |-> child_map],
                                            number, b, rec).map
                  /\ child_map' = DigestBlockStep([map |-> map, child_map |-> child_map],
                                                  number, b, rec).child_map
                  /\ digest_pos' = digest_pos + 1
                  /\ UNCHANGED <<pc, result>>
  /\ UNCHANGED <<rpc_vars, input_vars, backend, ext_vars, probes, block_for_digest,
                 digest_input_blocks>>

\* ------------------------------------------------------------ builder facade
\* ChildIndex derives Ord: by block, then by storage_key
ChildIndexLess(a, b) ==
  a.block < b.block \/ (a.block = b.block /\ a.storage_key < b.storage_key)

RECURSIVE SortedChildIndexes(_)
SortedChildIndexes(S) ==
  IF S = {} THEN <<>>
  ELSE LET m == CHOOSE x \in S : \A y \in S \ {x} : ChildIndexLess(x, y)
       IN <<m>> \o SortedChildIndexes(S \ {m})

\* the DigestIndex iterators prepare_digest_input returns for the children
children_digest_input(cm) == [ci \in DOMAIN cm |-> MapPairs(cm[ci], "DigestIndex")]

\* variant: only the children of the extrinsic pass are returned
children_digestExtOnly(cext, cdig) ==
  LET es == SortedChildIndexes(DOMAIN cext)
  IN [i \in 1..Len(es) |->
        [index |-> es[i],
         pairs |-> cext[es[i]] \o (IF es[i] \in DOMAIN cdig THEN cdig[es[i]] ELSE <<>>)]]

\* the children of prepare_input: the extrinsic pass's children, each chained
\* with its digest iterator if there is one, then the digest pass's other children
children_digest(cext, cdig) ==
  LET es == SortedChildIndexes(DOMAIN cext)
      rest == SortedChildIndexes((DOMAIN cdig) \ (DOMAIN cext))
  IN [i \in 1..Len(es) |->
        [index |-> es[i],
         pairs |-> cext[es[i]] \o (IF es[i] \in DOMAIN cdig THEN cdig[es[i]] ELSE <<>>)]]
       \o [i \in 1..Len(rest) |-> [index |-> rest[i], pairs |-> cdig[rest[i]]]]

\* variant: the digest pairs come first
TopInputDigestFirst(ext, m) == MapPairs(m, "DigestIndex") \o ext

\* extrinsics_input.chain(digest_input)
TopInput(ext, m) == ext \o MapPairs(m, "DigestIndex")

Ok(top, children, blocks) ==
  [ok |-> TRUE, err |-> [msg |-> "", block |-> 0], top |-> top, children |-> children,
   blocks |-> blocks]

\* the fold is over: its maps become iterators and prepare_input merges them
Merge ==
  /\ pc = "digest_fold"
  /\ digest_pos = Len(digest_input_blocks)
  /\ result' = Some(Ok(TopInput(extrinsics_input, map),
                       children_digest(children_result, children_digest_input(child_map)),
                       digest_input_blocks))
  /\ pc' = "done"
  /\ UNCHANGED <<rpc_vars, input_vars, backend, ext_vars, probes, digest_vars>>

\* ------------------------------------------------------------------- inputs
\* an overlay is built from items: an entry of a change set's scope, or (key 0)
\* a child that the change set lists with no entry
OverlayItems ==
  [cs : ChangeSetNames, scope : Scopes, key : Keys, v : OverlayedValues]
    \cup [cs : ChangeSetNames, scope : ChildKeys, key : {0},
          v : {[value |-> None, extrinsics |-> None]}]

\* within a single change set, keys are unique
ItemsOk(items) ==
  \A a \in items, b \in items :
    (a.cs = b.cs /\ a.scope = b.scope /\ a.key = b.key) => a = b

ScopeItems(items, cs, sc) == {i \in items : i.cs = cs /\ i.scope = sc /\ i.key # 0}

ItemsMap(items, cs, sc) ==
  [k \in {i.key : i \in ScopeItems(items, cs, sc)} |->
     (CHOOSE i \in ScopeItems(items, cs, sc) : i.key = k).v]

MkChangeSet(items, cs) ==
  [top |-> ItemsMap(items, cs, TOP),
   children |-> [sk \in {i.scope : i \in {x \in items : x.cs = cs /\ x.scope # TOP}} |->
                   [map |-> ItemsMap(items, cs, sk), info |-> ChildInfoOf(sk)]]]

MkOverlay(items) ==
  [committed |-> MkChangeSet(items, "committed"),
   prospective |-> MkChangeSet(items, "prospective")]

\* the overlays whose entries all lie in one scope, at most MaxOverlayEntries items
ItemsOf(sc) == {i \in OverlayItems : i.scope = sc \/ i.key = 0}
Overlays ==
  UNION {{MkOverlay(s) : s \in {x \in SubsetsUpTo(ItemsOf(sc), MaxOverlayEntries) :
                                  ItemsOk(x)}} : sc \in Scopes}

\* the overlay of the runs that vary the configuration and the storage: a write
\* in the top storage and one in child 1
WrittenItems ==
  {[cs |-> "committed", scope |-> TOP, key |-> 1,
    v |-> [value |-> Some(200), extrinsics |-> Some({0})]],
   [cs |-> "prospective", scope |-> 1, key |-> 1,
    v |-> [value |-> Some(200), extrinsics |-> Some({1})]]}
FewOverlays == {MkOverlay(WrittenItems)}

Configs ==
  [zero : Zeros, digest_interval : DigestIntervals, digest_levels : DigestLevels,
   end : {None}]

InitRun ==
  /\ backend = EmptyMap
  /\ roots = EmptyMap
  /\ pc = "extrinsics"
  /\ ext_scopes = SortedSeq(children_keys(changes)) \o <<TOP>>
  /\ ext_scope = TOP
  /\ ext_entries = <<>>
  /\ ext_map = EmptyMap
  /\ children_result = EmptyMap
  /\ extrinsics_input = <<>>
  /\ probes = <<>>
  /\ block_for_digest = 0
  /\ digest_input_blocks = <<>>
  /\ digest_pos = 0
  /\ map = EmptyMap
  /\ child_map = EmptyMap
  /\ root_calls = <<>>
  /\ cache_calls = <<>>
  /\ opened = <<>>
  /\ result = None
  /\ rpc_call = "none"
  /\ rpc_args = None
  /\ rpc_result = None
  /\ chain = <<>>
  /\ subscription = None
  /\ notifications = <<>>

\* every overlay, on a block that builds no digest
InitOverlay ==
  /\ config = [zero |-> 0, digest_interval |-> 2, digest_levels |-> 2, end |-> None]
  /\ parent = 0
  /\ changes \in Overlays
  /\ InitRun

\* every configuration and pending block, the storage being drawn as it is read
InitDigest ==
  /\ \E c \in Configs, p \in 0..(1 + MaxBlock - 1) :
       /\ p >= c.zero
       /\ p + 1 <= c.zero + MaxBlock
       /\ parent = p
       /\ \E e \in {None, Some(p + 1), Some(p + 2)} :
            /\ c.zero # 0 => e # Some(p + 2)
            /\ config = [c EXCEPT !.end = e]
  /\ changes \in FewOverlays
  /\ InitRun

Init == InitOverlay \/ InitDigest

Next ==
  \/ ExtNextScope
  \/ ExtFoldEntry
  \/ ExtScopeDone
  \/ DigestStart
  \/ DigestFoldBlock
  \/ Merge

Spec == Init /\ [][Next]_vars

\* =================================================== state API (client/rpc)
\* The query and subscription layer as the tests of client/rpc/src/state pin it
\* down.  A block after genesis is the set of keys it changes; block n has hash
\* HashOf(n); RandomHashes are hashes of no block.
MaxChain == 3
MaxTotal == 3
RpcKeys == {1, 2}
RandomHashes == {1, 2}
HashOf(n) == 10 + n
KnownHashes(ch) == {HashOf(n) : n \in 0..Len(ch)}
Hashes == RandomHashes \cup {HashOf(n) : n \in 0..MaxChain}
RpcCalls == {"split_range", "query_storage", "subscribe_storage"}

\* client.header(hash): the number of the block, None for an unknown hash
header_number(ch, h) == IF h \in KnownHashes(ch) THEN Some(h - 10) ELSE None

\* client.info().best_hash
best_hash(ch) == HashOf(Len(ch))

\* a range start..end
RangeOf(start, end) == [start |-> start, end |-> end]

\* variant: only a split after the end of the range is ignored
split_rangePastEnd(size, middle) ==
  IF middle = None \/ middle[1] = 0 \/ middle[1] > size
  THEN <<RangeOf(0, size), None>>
  ELSE <<RangeOf(0, middle[1]), Some(RangeOf(middle[1], size))>>

\* split_range(size, middle)
split_range(size, middle) ==
  IF middle = None \/ middle[1] = 0 \/ middle[1] >= size
  THEN <<RangeOf(0, size), None>>
  ELSE <<RangeOf(0, middle[1]), Some(RangeOf(middle[1], size))>>

\* Err(Error::InvalidBlockRange { from, to, details })
InvalidBlockRange(from, to, details) ==
  [ok |-> FALSE, from |-> from, to |-> to, details |-> details, sets |-> <<>>]

\* the change sets of the blocks from..to: the values of every key at `from`,
\* then a set for every later block that changes one of the keys
ChangeSets(ch, keys, from, to) ==
  LET later == SelectSeq([i \in 1..(to - from) |-> from + i],
                         LAMBDA n : ch[n] \cap keys # {})
  IN <<[block |-> HashOf(from), changes |-> keys]>>
       \o [i \in 1..Len(later) |->
             [block |-> HashOf(later[i]), changes |-> ch[later[i]] \cap keys]]

\* variant: the number test comes before the lookup of `to`
query_storageNumbersFirst(ch, keys, from, to) ==
  LET to_hash == IF to = None THEN best_hash(ch) ELSE to[1]
      f == header_number(ch, from)
      t == header_number(ch, to_hash)
  IN IF f = None \/ t = None
     THEN InvalidBlockRange(<<from>>, <<Some(to_hash)>>,
            <<"UnknownBlock: header not found in db", IF t = None THEN to_hash ELSE from>>)
     ELSE IF f[1] >= t[1]
     THEN InvalidBlockRange(<<f[1], from>>, <<t[1], to_hash>>, <<"from number >= to number">>)
     ELSE [ok |-> TRUE, from |-> <<>>, to |-> <<>>, details |-> <<>>,
           sets |-> ChangeSets(ch, keys, f[1], t[1])]

\* query_storage(keys, from, to)
query_storage(ch, keys, from, to) ==
  LET to_hash == IF to = None THEN best_hash(ch) ELSE to[1]
      f == header_number(ch, from)
      t == header_number(ch, to_hash)
  IN IF f = None
     THEN InvalidBlockRange(<<from>>, <<Some(to_hash)>>,
                            <<"UnknownBlock: header not found in db", from>>)
     ELSE IF t = None
     THEN InvalidBlockRange(<<from>>, <<Some(to_hash)>>,
                            <<"UnknownBlock: header not found in db", to_hash>>)
     ELSE IF f[1] >= t[1]
     THEN InvalidBlockRange(<<f[1], from>>, <<t[1], to_hash>>, <<"from number >= to number">>)
     ELSE [ok |-> TRUE, from |-> <<>>, to |-> <<>>, details |-> <<>>,
           sets |-> ChangeSets(ch, keys, f[1], t[1])]

\* variant: the initial values are sent whatever `keys` is
initial_change_setsAlways(ch, keys) ==
  <<[kind |-> "initial", block |-> best_hash(ch),
     changes |-> IF keys = None THEN RpcKeys ELSE keys[1]]>>

\* subscribe_storage: the initial values of the keys asked for, at the best
\* block; nothing when no key is named
initial_change_sets(ch, keys) ==
  IF keys = None THEN <<>>
  ELSE <<[kind |-> "initial", block |-> best_hash(ch), changes |-> keys[1]]>>

\* the changes of an imported block that a subscription is told about
filtered_changes(keys, touched) == IF keys = None THEN touched ELSE touched \cap keys[1]

\* variant: every imported block is notified
block_notificationsAlways(keys, touched, hash) ==
  <<[kind |-> "block", block |-> hash, changes |-> filtered_changes(keys, touched)]>>

\* the storage notification of an imported block, if it changes a key of the filter
block_notifications(keys, touched, hash) ==
  IF filtered_changes(keys, touched) = {} THEN <<>>
  ELSE <<[kind |-> "block", block |-> hash, changes |-> filtered_changes(keys, touched)]>>

\* should_split_ranges: one call of split_range
SplitRange ==
  /\ rpc_call = "split_range"
  /\ rpc_args = None
  /\ \E size \in 0..MaxTotal, middle \in {None} \cup {Some(m) : m \in 0..(MaxTotal + 1)} :
       /\ rpc_args' = Some([size |-> size, middle |-> middle])
       /\ rpc_result' = Some(split_range(size, middle))
  /\ UNCHANGED <<builder_vars, rpc_call, chain, subscription, notifications>>

\* client.import(block)
ImportBlock ==
  /\ rpc_call \in {"query_storage", "subscribe_storage"}
  /\ rpc_result = None
  /\ Len(chain) < MaxChain
  /\ \E touched \in SUBSET RpcKeys :
       /\ chain' = Append(chain, touched)
       /\ notifications' =
            IF subscription = None THEN notifications
            ELSE notifications
                   \o block_notifications(subscription[1].keys, touched,
                                          HashOf(Len(chain) + 1))
  /\ UNCHANGED <<builder_vars, rpc_call, rpc_args, rpc_result, subscription>>

\* api.query_storage(keys, from, to)
QueryStorage ==
  /\ rpc_call = "query_storage"
  /\ rpc_args = None
  /\ \E from \in Hashes, to \in {None} \cup {Some(h) : h \in Hashes} :
       /\ rpc_args' = Some([from |-> from, to |-> to])
       /\ rpc_result' = Some(query_storage(chain, RpcKeys, from, to))
  /\ UNCHANGED <<builder_vars, rpc_call, chain, subscription, notifications>>

\* api.subscribe_storage(_, subscriber, keys)
SubscribeStorage ==
  /\ rpc_call = "subscribe_storage"
  /\ subscription = None
  /\ \E keys \in {None} \cup {Some(K) : K \in (SUBSET RpcKeys) \ {{}}} :
       /\ subscription' = Some([keys |-> keys, at |-> Len(chain)])
       /\ notifications' = notifications \o initial_change_sets(chain, keys)
  /\ UNCHANGED <<builder_vars, rpc_call, rpc_args, rpc_result, chain>>

\* no builder run
BuilderIdle ==
  /\ config = [zero |-> 0, digest_interval |-> 2, digest_levels |-> 1, end |-> None]
  /\ parent = 0
  /\ changes = MkOverlay({})
  /\ backend = EmptyMap
  /\ roots = EmptyMap
  /\ pc = "idle"
  /\ ext_scopes = <<>>
  /\ ext_scope = TOP
  /\ ext_entries = <<>>
  /\ ext_map = EmptyMap
  /\ children_result = EmptyMap
  /\ extrinsics_input = <<>>
  /\ probes = <<>>
  /\ block_for_digest = 0
  /\ digest_input_blocks = <<>>
  /\ digest_pos = 0
  /\ map = EmptyMap
  /\ child_map = EmptyMap
  /\ root_calls = <<>>
  /\ cache_calls = <<>>
  /\ opened = <<>>
  /\ result = None

InitRpc ==
  /\ BuilderIdle
  /\ rpc_call \in RpcCalls
  /\ rpc_args = None
  /\ rpc_result = None
  /\ chain = <<>>
  /\ subscription = None
  /\ notifications = <<>>

NextRpc ==
  \/ SplitRange
  \/ ImportBlock
  \/ QueryStorage
  \/ SubscribeStorage

SpecRpc == InitRpc /\ [][NextRpc]_vars

\* ------------------------------------------------------- reading the result
Returned == pc = "done" /\ IsSome(result) /\ result[1].ok

\* the pairs prepare_input returns for scope `sc`
ScopePairs(sc) ==
  IF sc = TOP THEN result[1].top
  ELSE LET IsSc(c) == c.index.storage_key = sc
           cs == SelectSeq(result[1].children, IsSc)
       IN IF cs = <<>> THEN <<>> ELSE cs[1].pairs

PairsOfKind(pairs, kind) == LET Is(p) == p.kind = kind IN SelectSeq(pairs, Is)
PairKeys(pairs, kind) == {p.index.key : p \in Range(PairsOfKind(pairs, kind))}

\* the keys of scope `sc` that some change set lists with extrinsics
ExtrinsicKeys(sc) == {e.key : e \in Range(ScopeEntries(changes, sc))}

\* the overlay's final value of `k` in `sc` (prospective first) is not Some
FinalValueNone(sc, k) ==
  ~(IsSome(OverlayEntry(changes, sc, k)) /\ IsSome(OverlayEntry(changes, sc, k)[1].value))

\* the backend said that `k` did not exist in `sc`
ReportedAbsent(sc, k) == <<sc, k>> \in DOMAIN backend /\ backend[<<sc, k>>] = "false"

\* -------------------------------------------------------------------- claims
\* C1: temporary-write suppression.  In every returned result, for every scope
\* and key whose final overlay value is None and which the backend reported as
\* not existing, no ExtrinsicIndex pair of that key is emitted in that scope;
\* every other key listed with extrinsics has its ExtrinsicIndex pair.
C1_TemporaryWriteSuppressed ==
  Returned =>
    \A sc \in Scopes :
      PairKeys(ScopePairs(sc), "ExtrinsicIndex")
        = {k \in ExtrinsicKeys(sc) : ~(FinalValueNone(sc, k) /\ ReportedAbsent(sc, k))}

\* a key deleted in both change sets is probed at both occurrences and dropped
C1_Witness ==
  /\ Returned
  /\ \E sc \in Scopes, k \in Keys :
       /\ Len(probes) = 2
       /\ \A i \in 1..2 : probes[i] = [scope |-> sc, key |-> k, exists |-> "false"]
       /\ k \notin PairKeys(ScopePairs(sc), "ExtrinsicIndex")
       /\ ExtrinsicKeys(sc) = {k}

\* ------------------------------------------------- the max-level digest of C2
\* the record of a historical block; a block the run has not read indexes nothing
RecordAt(b) ==
  IF b \in DOMAIN roots THEN roots[b]
  ELSE [root |-> "some", cached |-> FALSE, cache |-> {}, trie |-> {}]

\* the fold of prepare_digest_input over `blocks`, every root being there
RECURSIVE DigestFoldOver(_, _, _)
DigestFoldOver(st, block, blocks) ==
  IF blocks = <<>> THEN st
  ELSE DigestFoldOver(DigestBlockStep(st, block, Head(blocks), RecordAt(Head(blocks))),
                      block, Tail(blocks))

EmptyDigest == [map |-> EmptyMap, child_map |-> EmptyMap]

\* the end of the max-level digest window of the pending block
MaxLevelEnd == next_max_level_digest_range(config, number)[1][2]

\* the blocks a max-level digest built at MaxLevelEnd covers
MaxLevelCovered == digest_build_iterator([config EXCEPT !.end = None], MaxLevelEnd)

\* its DigestIndex maps over the same storage, the block field being `number`
MaxLevelDigest == DigestFoldOver(EmptyDigest, number, MaxLevelCovered)

\* the DigestIndex pairs a digest state gives scope `sc`
DigestPairsOf(st, sc) ==
  IF sc = TOP THEN MapPairs(st.map, "DigestIndex")
  ELSE IF ChildIndex(number, sc) \in DOMAIN st.child_map
  THEN MapPairs(st.child_map[ChildIndex(number, sc)], "DigestIndex")
  ELSE <<>>

\* block `b` indexes no key in any scope
IndexesNothing(b) ==
  \A sc \in Scopes :
    DigestPairsOf(DigestFoldOver(EmptyDigest, number, <<b>>), sc) = <<>>

SkewedNotMaxLevel ==
  /\ config.end = Some(number)
  /\ digest_level_at_block(config, number) # config.digest_levels

NoDigestPairs == \A sc \in Scopes : PairsOfKind(ScopePairs(sc), "DigestIndex") = <<>>

SameAsMaxLevelDigest ==
  \A sc \in Scopes :
    PairsOfKind(ScopePairs(sc), "DigestIndex") = DigestPairsOf(MaxLevelDigest, sc)

ContributionOf(b) ==
  {sk \in Scopes \X Keys :
     \E p \in Range(PairsOfKind(ScopePairs(sk[1]), "DigestIndex")) :
       p.index.key = sk[2] /\ b \in Range(p.value)}

\* the (scope, key) pairs the cache delivers for a block
CacheDelivery(rec) == {<<i.scope, i.key>> : i \in {x \in rec.cache : x.key # 0}}

\* the (scope, key) pairs the tries of a block hold
TrieDelivery(rec) ==
  {sk \in Scopes \X Keys :
     /\ sk[1] = TOP \/ sk[1] \in children_roots(rec.trie)
     /\ sk[2] \in ScanKeys(rec.trie, sk[1], "ExtrinsicIndex")
                    \cup ScanKeys(rec.trie, sk[1], "DigestIndex")}

\* C3: cache dominance.  No trie of a covered block with a cache hit is ever
\* opened; in a returned result such a block contributes exactly the
\* (scope, key) pairs the cache delivered, and a covered block without a cache
\* hit has its trie and its child tries opened and contributes what they hold.
C3_CacheDominance ==
  \A b \in DOMAIN roots :
    roots[b].root = "some" =>
      /\ roots[b].cached =>
           /\ \A o \in Range(opened) : o[1] # b
           /\ Returned => ContributionOf(b) = CacheDelivery(roots[b])
      /\ ~roots[b].cached =>
           /\ <<b, TOP>> \in Range(opened)
           /\ \A sk \in children_roots(roots[b].trie) : <<b, sk>> \in Range(opened)
           /\ Returned => ContributionOf(b) = TrieDelivery(roots[b])

\* a covered block with a cache hit whose trie holds a key the cache does not
\* deliver, and whose cache delivers a key
C3_Witness ==
  /\ Returned
  /\ \E b \in DOMAIN roots :
       /\ roots[b].root = "some" /\ roots[b].cached
       /\ CacheDelivery(roots[b]) # {}
       /\ TrieDelivery(roots[b]) \ CacheDelivery(roots[b]) # {}
       /\ ContributionOf(b) = CacheDelivery(roots[b])

NoDigestApplies ==
  digest_level_at_block(config, number) = 0 /\ config.end # Some(number)

\* C4: non-digest block.  When the pending block is not a digest block and
\* config.end is not the pending block, storage.root is never called, and a
\* returned result has an empty covered-blocks list and no DigestIndex pair in
\* any scope.
C4_NonDigestBlock ==
  NoDigestApplies =>
    /\ root_calls = <<>>
    /\ Returned => (result[1].blocks = <<>> /\ NoDigestPairs)

\* a returned result of a non-digest block, inside a window that a skewed
\* digest would close later, with its ExtrinsicIndex pairs
C4_Witness ==
  /\ Returned
  /\ NoDigestApplies
  /\ config.end = Some(number + 1)
  /\ PairKeys(result[1].top, "ExtrinsicIndex") # {}
  /\ result[1].blocks = <<>>

\* C5: missing historical root.  Once storage.root has answered Ok(None) for a
\* covered block b, the run is over with Err("No changes trie root for block b"):
\* b is the only such block read and the last block read, the error carries no
\* iterator and no covered list, and neither the cache nor a trie of b was
\* consulted.
C5_MissingRoot ==
  \A b \in DOMAIN roots :
    roots[b].root = "none" =>
      /\ pc = "done"
      /\ result = Some(Err("No changes trie root for block", b))
      /\ ~result[1].ok /\ result[1].top = <<>> /\ result[1].children = <<>>
      /\ result[1].blocks = <<>>
      /\ Last(root_calls) = b
      /\ \A c \in DOMAIN roots : roots[c].root = "none" => c = b
      /\ b \notin Range(cache_calls)
      /\ \A o \in Range(opened) : o[1] # b
      /\ \A i \in 1..Len(digest_input_blocks) :
           i > Len(root_calls) =>
             /\ digest_input_blocks[i] \notin Range(cache_calls)
             /\ \A o \in Range(opened) : o[1] # digest_input_blocks[i]

\* the second of two covered blocks has no root; the first was read from its trie
C5_Witness ==
  /\ pc = "done"
  /\ Len(digest_input_blocks) = 2
  /\ Len(root_calls) = 2
  /\ roots[digest_input_blocks[2]].root = "none"
  /\ opened # <<>>
  /\ map # EmptyMap
  /\ result = Some(Err("No changes trie root for block", digest_input_blocks[2]))

\* every sequence prepare_input returns: the top one and one per child
ReturnedSequences ==
  {result[1].top} \cup {c.pairs : c \in Range(result[1].children)}

StrictlyAscending(s) == \A i \in 1..Len(s), j \in 1..Len(s) : i < j => s[i] < s[j]

\* C6: output ordering.  In every returned sequence all ExtrinsicIndex pairs
\* precede all DigestIndex pairs, and within each kind the keys are strictly
\* ascending.
C6_OutputOrdering ==
  Returned =>
    \A s \in ReturnedSequences :
      \A i \in 1..Len(s), j \in 1..Len(s) :
        i < j =>
          /\ ~(s[i].kind = "DigestIndex" /\ s[j].kind = "ExtrinsicIndex")
          /\ s[i].kind = s[j].kind => s[i].index.key < s[j].index.key

\* a top sequence with an ExtrinsicIndex pair and two DigestIndex pairs, the
\* first DigestIndex key being the ExtrinsicIndex key
C6_Witness ==
  /\ Returned
  /\ Len(result[1].top) = 3
  /\ result[1].top[1].kind = "ExtrinsicIndex"
  /\ result[1].top[2].kind = "DigestIndex"
  /\ result[1].top[2].index.key = result[1].top[1].index.key
  /\ result[1].top[3].kind = "DigestIndex"

\* C7: DigestIndex value lists.  In a returned result every DigestIndex value
\* list is strictly ascending and made of covered blocks, also when a covered
\* block delivers the key through more than one source.
C7_DigestValueLists ==
  Returned =>
    \A s \in ReturnedSequences :
      \A p \in Range(PairsOfKind(s, "DigestIndex")) :
        /\ StrictlyAscending(p.value)
        /\ p.value # <<>>
        /\ Range(p.value) \subseteq Range(result[1].blocks)

\* the trie of a covered block holds the same key under the ExtrinsicIndex
\* prefix and under the DigestIndex prefix, and the key's list names the block once
C7_Witness ==
  /\ Returned
  /\ \E b \in DOMAIN roots, k \in Keys :
       /\ ~roots[b].cached
       /\ k \in ScanKeys(roots[b].trie, TOP, "ExtrinsicIndex")
                 \cap ScanKeys(roots[b].trie, TOP, "DigestIndex")
       /\ \E p \in Range(PairsOfKind(result[1].top, "DigestIndex")) :
            p.index.key = k /\ p.value = <<b>>

\* C8 as stated: every ExtrinsicIndex value list is sorted ascending and holds
\* no extrinsic index twice.
C8_ExtrinsicListsDeduplicated ==
  Returned =>
    \A s \in ReturnedSequences :
      \A p \in Range(PairsOfKind(s, "ExtrinsicIndex")) : StrictlyAscending(p.value)

\* C9: per-child outer join.  The returned child list has exactly one entry for
\* every ChildIndex of the extrinsic pass or of the digest pass, and the entry's
\* sequence is the extrinsic pass's pairs followed by the digest pass's pairs.
C9_PerChildOuterJoin ==
  Returned =>
    LET cs == result[1].children
        dig == children_digest_input(child_map)
    IN /\ {c.index : c \in Range(cs)} = (DOMAIN children_result) \cup (DOMAIN child_map)
       /\ \A i \in 1..Len(cs), j \in 1..Len(cs) : i # j => cs[i].index # cs[j].index
       /\ \A c \in Range(cs) :
            c.pairs = (IF c.index \in DOMAIN children_result
                       THEN children_result[c.index] ELSE <<>>)
                        \o (IF c.index \in DOMAIN child_map THEN dig[c.index] ELSE <<>>)

\* a child that only the digest pass produced, with a DigestIndex pair, next to
\* a child of the extrinsic pass
C9_Witness ==
  /\ Returned
  /\ Len(result[1].children) = 2
  /\ \E c \in Range(result[1].children) :
       /\ c.index \notin DOMAIN children_result
       /\ c.pairs # <<>>
  /\ \E c \in Range(result[1].children) :
       /\ c.index \in DOMAIN children_result
       /\ c.pairs # <<>>

\* the block fields of every index of a returned result
StampedBlocks ==
  {p.index.block : p \in UNION {Range(s) : s \in ReturnedSequences}}
    \cup {c.index.block : c \in Range(result[1].children)}

\* C10: block stamping.  Every ExtrinsicIndex, DigestIndex and ChildIndex of a
\* returned result carries the pending block; when the coverage was enumerated
\* at another block, no index carries that block or a covered block.
C10_BlockStamping ==
  Returned =>
    /\ StampedBlocks \subseteq {number}
    /\ block_for_digest # number =>
         /\ block_for_digest \notin StampedBlocks
         /\ StampedBlocks \cap Range(result[1].blocks) = {}

\* a skewed digest with DigestIndex pairs in the top storage and in a child
C10_Witness ==
  /\ Returned
  /\ config.end = Some(number)
  /\ block_for_digest # number
  /\ PairsOfKind(result[1].top, "DigestIndex") # <<>>
  /\ \E c \in Range(result[1].children) : PairsOfKind(c.pairs, "DigestIndex") # <<>>

\* C11: backend access.  The backend is read only through the existence probes,
\* and a probe is made only for a key that some change set lists with extrinsics
\* and whose final overlay value in the scope is None; in a returned result a key
\* whose final value is Some is emitted and the backend was never asked about it.
C11_BackendAccess ==
  /\ DOMAIN backend = {<<p.scope, p.key>> : p \in Range(probes)}
  /\ \A p \in Range(probes) :
       p.key \in ExtrinsicKeys(p.scope) /\ FinalValueNone(p.scope, p.key)
  /\ Returned =>
       \A sc \in Scopes :
         \A k \in ExtrinsicKeys(sc) :
           ~FinalValueNone(sc, k) =>
             /\ <<sc, k>> \notin DOMAIN backend
             /\ k \in PairKeys(ScopePairs(sc), "ExtrinsicIndex")

\* a scope with a written key, emitted without a probe, and a deleted key that
\* was probed
C11_Witness ==
  /\ Returned
  /\ \E sc \in Scopes, k \in Keys, j \in Keys :
       /\ {k, j} \subseteq ExtrinsicKeys(sc)
       /\ ~FinalValueNone(sc, k) /\ <<sc, k>> \notin DOMAIN backend
       /\ FinalValueNone(sc, j) /\ <<sc, j>> \in DOMAIN backend
       /\ k \in PairKeys(ScopePairs(sc), "ExtrinsicIndex")

\* ----------------------------------------------- prepare_input as a function
\* The same computation as the actions above, as operators of the inputs: the
\* configuration, the parent, the overlay, the backend's answers and the
\* storage's records.  An answer or a record that is not given is that of a key
\* that existed and of a block with an empty trie.
RecordIn(rs, b) ==
  IF b \in DOMAIN rs THEN rs[b]
  ELSE [root |-> "some", cached |-> FALSE, cache |-> {}, trie |-> {}]

AnswerIn(bk, sc, k) == IF <<sc, k>> \in DOMAIN bk THEN bk[<<sc, k>>] ELSE "true"

\* the try_fold of prepare_extrinsics_input_inner
RECURSIVE ExtTryFold(_, _, _, _, _, _)
ExtTryFold(m, block, ch, bk, sc, entries) ==
  IF entries = <<>> THEN [err |-> FALSE, map |-> m]
  ELSE LET k == Head(entries).key
           v == Head(entries).v
           r == AnswerIn(bk, sc, k)
       IN IF k \in DOMAIN m
          THEN ExtTryFold(OccupiedExtend(m, k, v), block, ch, bk, sc, Tail(entries))
          ELSE IF NeedsBackendProbe(ch, sc, k)
          THEN (IF r = "err" THEN [err |-> TRUE, map |-> m]
                ELSE ExtTryFold(ProbedInsert(m, block, k, v, r), block, ch, bk, sc,
                                Tail(entries)))
          ELSE ExtTryFold(VacantInsert(m, block, k, v), block, ch, bk, sc, Tail(entries))

prepare_extrinsics_input_inner(block, ch, bk, sc) ==
  LET f == ExtTryFold(EmptyMap, block, ch, bk, sc, ScopeEntries(ch, sc))
  IN [err |-> f.err, pairs |-> MapPairs(f.map, "ExtrinsicIndex")]

prepare_extrinsics_input(block, ch, bk) ==
  LET inner(sc) == prepare_extrinsics_input_inner(block, ch, bk, sc)
  IN [err |-> \E sc \in children_keys(ch) \cup {TOP} : inner(sc).err,
      top |-> inner(TOP).pairs,
      children |-> [ci \in {ChildIndex(block, sk) : sk \in children_keys(ch)} |->
                      inner(ci.storage_key).pairs]]

\* the try_fold of prepare_digest_input
RECURSIVE DigestTryFold(_, _, _, _)
DigestTryFold(st, block, blocks, rs) ==
  IF blocks = <<>> THEN [err |-> None, st |-> st]
  ELSE LET b == Head(blocks)
           e == RootError(RecordIn(rs, b), b)
       IN IF IsSome(e) THEN [err |-> e, st |-> st]
          ELSE DigestTryFold(DigestBlockStep(st, block, b, RecordIn(rs, b)), block,
                             Tail(blocks), rs)

prepare_digest_input(c, p, rs) ==
  LET blocks == digest_build_iterator(c, BlockForDigest(c, p + 1))
      f == DigestTryFold([map |-> EmptyMap, child_map |-> EmptyMap], p + 1, blocks, rs)
  IN [err |-> f.err, map |-> f.st.map, child_map |-> f.st.child_map, blocks |-> blocks]

prepare_input(c, p, ch, bk, rs) ==
  LET ext == prepare_extrinsics_input(p + 1, ch, bk)
      dig == prepare_digest_input(c, p, rs)
  IN IF ext.err THEN Err("backend", 0)
     ELSE IF IsSome(dig.err) THEN dig.err[1]
     ELSE Ok(TopInput(ext.top, dig.map),
             children_digest(ext.children, children_digest_input(dig.child_map)),
             dig.blocks)

\* ------------------------------------------------------ translation by D
Offsets == {1, 5}

ShiftConfig(c, D) ==
  [c EXCEPT !.zero = @ + D, !.end = IF IsSome(@) THEN Some(@[1] + D) ELSE None]

ShiftRoots(rs, D) == [b \in {x + D : x \in DOMAIN rs} |-> rs[b - D]]

ShiftBlocks(s, D) == [i \in 1..Len(s) |-> s[i] + D]

ShiftPairs(s, D) ==
  [i \in 1..Len(s) |->
     [kind |-> s[i].kind,
      index |-> [block |-> s[i].index.block + D, key |-> s[i].index.key],
      value |-> IF s[i].kind = "DigestIndex" THEN ShiftBlocks(s[i].value, D)
                ELSE s[i].value]]

ShiftResult(r, D) ==
  [ok |-> r.ok,
   err |-> [msg |-> r.err.msg, block |-> IF r.err.block = 0 THEN 0 ELSE r.err.block + D],
   top |-> ShiftPairs(r.top, D),
   children |-> [i \in 1..Len(r.children) |->
                   [index |-> ChildIndex(r.children[i].index.block + D,
                                         r.children[i].index.storage_key),
                    pairs |-> ShiftPairs(r.children[i].pairs, D)]],
   blocks |-> ShiftBlocks(r.blocks, D)]

\* C12: translation invariance.  What a finished run returns is what
\* prepare_input computes from its inputs, and for every offset D the run with
\* zero, parent.number, config.end and the storage's blocks shifted by D returns
\* the same result with every block number in it increased by D.
C12_TranslationInvariance ==
  pc = "done" =>
    /\ result[1] = prepare_input(config, parent, changes, backend, roots)
    /\ \A D \in Offsets :
         prepare_input(ShiftConfig(config, D), parent + D, changes, backend,
                       ShiftRoots(roots, D))
           = ShiftResult(result[1], D)

\* a skewed digest away from block 0 that returns DigestIndex pairs in a child
\* and whose translation by 5 is the translated result
C12_Witness ==
  /\ Returned
  /\ config.zero = 1
  /\ config.end = Some(number)
  /\ Len(result[1].blocks) > 0
  /\ \E c \in Range(result[1].children) : PairsOfKind(c.pairs, "DigestIndex") # <<>>
  /\ prepare_input(ShiftConfig(config, 5), parent + 5, changes, backend,
                   ShiftRoots(roots, 5)) = ShiftResult(result[1], 5)

\* ------------------------------------------------ configurations at large
\* the configurations of C13..C15: the zero of the run, any of these intervals
\* and level counts, a pending block in the WideSpan blocks after zero, and
\* config.end absent, at the pending block or after it
WideIntervals == {2, 3, 4}
WideLevels == {1, 2, 3}
WideSpan == 16
WidePending == (config.zero + 1)..(config.zero + WideSpan)
WideConfigs(n) ==
  {[zero |-> config.zero, digest_interval |-> i, digest_levels |-> l, end |-> e] :
     i \in WideIntervals, l \in WideLevels, e \in {None, Some(n), Some(n + 1)}}

\* the covered list of pending block n under configuration c
CoveredList(c, n) == digest_build_iterator(c, BlockForDigest(c, n))

\* where the configurations at large are looked at: the digest pass is about to
\* start on a block that is not the first one after zero
AtDigestStart == pc = "digest" /\ parent > config.zero

\* C13: covered-blocks list.  The list the digest pass enumerates, and returns,
\* is strictly ascending; so is the list of every configuration at large.
C13_CoveredAscending ==
  /\ StrictlyAscending(digest_input_blocks)
  /\ Returned => result[1].blocks = digest_input_blocks
  /\ AtDigestStart =>
       \A n \in WidePending : \A c \in WideConfigs(n) : StrictlyAscending(CoveredList(c, n))

\* a returned covered list of two blocks, and a list at large that mixes the
\* blocks of two digest levels
C13_Witness ==
  /\ Returned
  /\ Len(result[1].blocks) = 2
  /\ \E n \in WidePending : \E c \in WideConfigs(n) :
       /\ c.digest_interval = 4 /\ c.digest_levels = 2 /\ c.end = Some(n)
       /\ Len(CoveredList(c, n)) = 4

Ancestors(c, n) == {b \in 0..n : c.zero < b /\ b < n}

DividingLevels(c, n) ==
  {L \in 1..c.digest_levels :
     \E q \in 1..n : n - c.zero = q * Pow(c.digest_interval, L)}

\* the greatest of them, 0 when there is none
GreatestDividingLevel(c, n) ==
  IF DividingLevels(c, n) = {} THEN 0 ELSE Max(DividingLevels(c, n))

\* the classification of a block that lies d blocks after zero
LevelAfterZero(i, l, d) ==
  digest_level_at_block([zero |-> config.zero, digest_interval |-> i,
                         digest_levels |-> l, end |-> None], config.zero + d)

\* C15: digest classification.  Block zero is never a digest block; a block
\* after zero is a digest block iff its distance from zero is a multiple of
\* digest_interval^L for some L in 1..digest_levels, its level being the greatest
\* such L; a digest of level L built without config.end covers
\* L * (digest_interval - 1) blocks and any other block covers none.  With
\* interval 4 and 2 levels: zero+4 and zero+8 are level 1, zero+16 is level 2,
\* zero+5 is no digest block.
C15_DigestClassification ==
  /\ config.end # Some(number) =>
       /\ digest_input_blocks # <<>> => DividingLevels(config, number) # {}
       /\ Returned =>
            Len(result[1].blocks)
              = GreatestDividingLevel(config, number) * (config.digest_interval - 1)
  /\ AtDigestStart =>
       /\ \A n \in WidePending : \A c \in WideConfigs(n) :
            /\ digest_level_at_block(c, c.zero) = 0
            /\ digest_level_at_block(c, n) = GreatestDividingLevel(c, n)
            /\ c.end = None =>
                 Len(CoveredList(c, n))
                   = digest_level_at_block(c, n) * (c.digest_interval - 1)
       /\ LevelAfterZero(4, 2, 4) = 1 /\ LevelAfterZero(4, 2, 8) = 1
       /\ LevelAfterZero(4, 2, 16) = 2 /\ LevelAfterZero(4, 2, 5) = 0
       /\ LevelAfterZero(4, 2, 0) = 0

\* a level-2 digest was returned with its two covered blocks, and at large the
\* block 16 after zero is a level-2 digest block of interval 4 that covers 6 blocks
C15_Witness ==
  /\ Returned
  /\ config.end = None
  /\ digest_level_at_block(config, number) = 2
  /\ Len(result[1].blocks) = 2
  /\ LevelAfterZero(4, 2, 16) = 2
  /\ Len(CoveredList([zero |-> config.zero, digest_interval |-> 4, digest_levels |-> 2,
                      end |-> None], config.zero + 16)) = 6

\* C16: split_range(total, split).  For split = None or Some(0) the result is
\* (0..total, None); for 0 < split < total it is (0..split, Some(split..total)),
\* two contiguous non-empty ranges that cover 0..total; for split >= total it is
\* (0..total, None).  The assertions of should_split_ranges are instances.
C16_SplitRange ==
  (rpc_call = "split_range" /\ rpc_args # None) =>
    LET total == rpc_args[1].size
        split == rpc_args[1].middle
        r == rpc_result[1]
    IN /\ (split = None \/ split = Some(0)) => r = <<RangeOf(0, total), None>>
       /\ (split # None /\ 0 < split[1] /\ split[1] < total) =>
            /\ r = <<RangeOf(0, split[1]), Some(RangeOf(split[1], total))>>
            /\ r[1].start = 0 /\ r[1].start < r[1].end
            /\ r[1].end = r[2][1].start
            /\ r[2][1].start < r[2][1].end /\ r[2][1].end = total
       /\ (split # None /\ split[1] >= total) => r = <<RangeOf(0, total), None>>
       /\ split_range(1, None) = <<RangeOf(0, 1), None>>
       /\ split_range(100, None) = <<RangeOf(0, 100), None>>
       /\ split_range(1, Some(0)) = <<RangeOf(0, 1), None>>
       /\ split_range(100, Some(50)) = <<RangeOf(0, 50), Some(RangeOf(50, 100))>>
       /\ split_range(100, Some(99)) = <<RangeOf(0, 99), Some(RangeOf(99, 100))>>

\* a range of 3 split at its last element
C16_Witness ==
  /\ rpc_call = "split_range"
  /\ rpc_args = Some([size |-> 3, middle |-> Some(2)])
  /\ rpc_result = Some(<<RangeOf(0, 2), Some(RangeOf(2, 3))>>)

\* ---------------------------------------------------------------- C17
\* the outcome of the query_storage call of this run, and its `to` endpoint
\* after an absent `to` has been replaced by the best block
QueryMade == rpc_call = "query_storage" /\ rpc_args # None /\ rpc_result # None
QueryTo == IF rpc_args[1].to = None THEN HashOf(Len(chain)) ELSE rpc_args[1].to[1]
UnknownBlock(h) == <<"UnknownBlock: header not found in db", h>>

\* C17: query_storage validation.  An absent `to` stands for the best block.
\* An unknown `from` fails with InvalidBlockRange whose details name `from`,
\* whatever `to` is; a known `from` with an unknown `to` fails naming `to`;
\* two known endpoints with from.number >= to.number fail with
\* "from number >= to number"; every failure returns no change set, and every
\* other call succeeds.
C17_QueryStorageValidation ==
  QueryMade =>
    LET r == rpc_result[1]
        from == rpc_args[1].from
        known == {HashOf(n) : n \in 0..Len(chain)}
    IN /\ from \notin known =>
            /\ ~r.ok
            /\ r.details = UnknownBlock(from)
            /\ r.to = <<Some(QueryTo)>>
       /\ (from \in known /\ QueryTo \notin known) =>
            /\ ~r.ok
            /\ r.details = UnknownBlock(QueryTo)
       /\ (from \in known /\ QueryTo \in known /\ from >= QueryTo) =>
            /\ ~r.ok
            /\ r.details = <<"from number >= to number">>
            /\ r.from = <<from - 10, from>>
            /\ r.to = <<QueryTo - 10, QueryTo>>
       /\ (from \in known /\ QueryTo \in known /\ from < QueryTo) =>
            /\ r.ok
            /\ Len(r.sets) >= 1
       /\ ~r.ok => r.sets = <<>>

\* both endpoints are unknown and the error names `from`; before that call two
\* blocks were imported
C17_Witness ==
  /\ QueryMade
  /\ Len(chain) = 2
  /\ rpc_args[1] = [from |-> 1, to |-> Some(2)]
  /\ ~rpc_result[1].ok
  /\ rpc_result[1].details = UnknownBlock(1)
  /\ rpc_result[1].sets = <<>>

\* ---------------------------------------------------------------- C18
\* the notifications a subscription has received, as the chain implies them:
\* the blocks imported after the subscription that change a key of the filter
\* (any key when there is no filter), in import order
Touches(keys, touched) ==
  IF keys = None THEN touched # {} ELSE touched \cap keys[1] # {}

NotifiedBlocks ==
  LET at == subscription[1].at
  IN SelectSeq([i \in 1..(Len(chain) - at) |-> at + i],
               LAMBDA n : Touches(subscription[1].keys, chain[n]))

BlockKinds == [i \in 1..Len(NotifiedBlocks) |-> <<"block", HashOf(NotifiedBlocks[i])>>]
InitialKind == <<"initial", HashOf(subscription[1].at)>>
ReceivedKinds == [i \in 1..Len(notifications) |->
                    <<notifications[i].kind, notifications[i].block>>]

\* C18: subscribe_storage with keys = Some(ks) sends one initial change set
\* (the values of ks at the best block of the moment) first; with keys = None
\* it sends no initial set.  After that it sends one change set for each
\* imported block that changes a key of ks (any key when keys = None), in
\* import order, and nothing else.
C18_SubscribeStorage ==
  subscription # None =>
    /\ ReceivedKinds =
         (IF subscription[1].keys = None THEN <<>> ELSE <<InitialKind>>) \o BlockKinds
    /\ \A i \in 1..Len(notifications) :
         /\ notifications[i].changes # {}
         /\ subscription[1].keys # None => notifications[i].changes \subseteq subscription[1].keys[1]
         /\ notifications[i].kind = "block" =>
              notifications[i].changes \subseteq chain[notifications[i].block - 10]

\* a subscription without keys, made after one block; of the two blocks
\* imported since, one changes a key: it is the only notification
C18_Witness ==
  /\ subscription # None
  /\ subscription[1].keys = None
  /\ subscription[1].at = 1
  /\ Len(chain) = 3
  /\ chain[2] = {1}
  /\ chain[3] = {}
  /\ ReceivedKinds = <<<<"block", HashOf(2)>>>>

\* the statement with an initial change set for every subscription
C18_AsStated ==
  subscription # None => ReceivedKinds = <<InitialKind>> \o BlockKinds

\* ---------------------------------------------------------------- C19
\* the probes made for key `k` of scope `sc`, in order, and the number of
\* entries with extrinsics that the two change sets of the scope hold for `k`
ProbesOf(sc, k) ==
  LET Is(p) == p.scope = sc /\ p.key = k IN SelectSeq(probes, Is)

Occurrences(sc, k) ==
  LET Is(e) == e.key = k IN Len(SelectSeq(ScopeEntries(changes, sc), Is))

\* C19: the temporary-write filter works per vacant entry.  Within one scope a
\* key that was inserted at its first occurrence is never probed again: its
\* later occurrence only extends the list.  A key that was dropped at its first
\* occurrence is vacant again at its later occurrence and is probed again, the
\* backend gives the same answer and the key is dropped again.  So a key is
\* probed at most once per occurrence, a key probed more than once was reported
\* absent each time, and in a returned result a key is emitted exactly when the
\* decision at its first occurrence was to keep it.
C19_FilterPerVacantEntry ==
  \A sc \in Scopes :
    \A k \in Keys :
      LET ps == ProbesOf(sc, k)
      IN /\ Len(ps) <= Occurrences(sc, k)
         /\ \A i \in 1..Len(ps) : ps[i].exists = ps[1].exists
         /\ Len(ps) >= 2 => ps[1].exists = "false"
         /\ (Returned /\ k \in ExtrinsicKeys(sc)) =>
              (k \in PairKeys(ScopePairs(sc), "ExtrinsicIndex")
                 <=> (ps = <<>> \/ ps[1].exists = "true"))

\* a key deleted in both change sets that the backend holds: probed at its
\* committed occurrence, inserted, and extended without a probe at its
\* prospective occurrence
C19_Witness ==
  /\ Returned
  /\ \E sc \in Scopes, k \in Keys :
       /\ Occurrences(sc, k) = 2
       /\ FinalValueNone(sc, k)
       /\ ProbesOf(sc, k) = <<[scope |-> sc, key |-> k, exists |-> "true"]>>
       /\ k \in PairKeys(ScopePairs(sc), "ExtrinsicIndex")

\* the statement with at most one probe per key and scope
C19_AsStated ==
  \A sc \in Scopes : \A k \in Keys : Len(ProbesOf(sc, k)) <= 1

\* ---------------------------------------------------------------- C20
\* the storage with every entry that fails to decode removed from the tries
Decodable(trie) == {e \in trie : e.ok}
DecodableRoots(rs) == [b \in DOMAIN rs |-> [rs[b] EXCEPT !.trie = Decodable(@)]]

\* the covered blocks whose trie was walked and holds an entry that fails to decode
WalkedWithFailure ==
  {b \in DOMAIN roots :
     /\ roots[b].root = "some"
     /\ ~roots[b].cached
     /\ Decodable(roots[b].trie) # roots[b].trie}

\* C20: decode-failure tolerance.  Whatever prepare_input returns over a storage
\* whose walked tries hold entries that fail to decode (a key under the
\* ExtrinsicIndex or DigestIndex prefix, or the value of a ChildIndex), it
\* returns over the storage with those entries removed: the entries raise no
\* error and contribute no pair, no child and no covered block.
C20_DecodeFailureTolerance ==
  pc = "done" =>
    /\ result[1] = prepare_input(config, parent, changes, backend, DecodableRoots(roots))
    /\ \A b \in WalkedWithFailure :
         \A e \in roots[b].trie \ Decodable(roots[b].trie) :
           result[1] = prepare_input(config, parent, changes, backend,
                                     [roots EXCEPT ![b].trie = @ \ {e}])

\* a returned digest over a walked trie that holds, under the same prefix of the
\* top trie, a key that decodes and one that does not: one DigestIndex pair
C20_Witness ==
  /\ Returned
  /\ \E b \in WalkedWithFailure :
       \E good \in roots[b].trie, bad \in roots[b].trie :
         /\ good.ok /\ ~bad.ok
         /\ good.scope = TOP /\ bad.scope = TOP
         /\ good.kind = bad.kind
         /\ b \in Range(result[1].blocks)
         /\ PairKeys(result[1].top, "DigestIndex") = {good.key}

\* ---------------------------------------------------------------- C21
\* the extrinsics set that change set `cs` holds for key `k` of scope `sc`: empty
\* without an entry and for an entry whose extrinsics is absent
ExtrinsicsIn(cs, sc, k) ==
  LET om == ScopeMap(cs, sc)
  IN IF om = None THEN {}
     ELSE IF k \notin DOMAIN om[1] THEN {}
     ELSE IF om[1][k].extrinsics = None THEN {}
     ELSE om[1][k].extrinsics[1]

\* how often `x` occurs in the list `s`
CountIn(s, x) == Cardinality({i \in 1..Len(s) : s[i] = x})

\* C21: extrinsic merge.  In every returned result the value list of an
\* ExtrinsicIndex pair is ascending and holds an extrinsic index once for each
\* of the key's two entries (committed, prospective) of the scope whose
\* extrinsics set is present and holds it; an entry with absent extrinsics adds
\* nothing, and a key without a present extrinsics set in the scope has no pair.
C21_ExtrinsicMerge ==
  Returned =>
    \A sc \in Scopes :
      LET ps == PairsOfKind(ScopePairs(sc), "ExtrinsicIndex")
      IN \A i \in 1..Len(ps) :
           LET k == ps[i].index.key
               A == ExtrinsicsIn(changes.committed, sc, k)
               B == ExtrinsicsIn(changes.prospective, sc, k)
               l == ps[i].value
           IN /\ A \cup B # {}
              /\ Len(l) = Cardinality(A) + Cardinality(B)
              /\ \A j \in 1..(Len(l) - 1) : l[j] <= l[j + 1]
              /\ \A x \in ExtrinsicIds :
                   CountIn(l, x) = (IF x \in A THEN 1 ELSE 0) + (IF x \in B THEN 1 ELSE 0)

\* a key with two extrinsics in committed and the lower one again in
\* prospective: the merged list is ascending and holds the common index twice
C21_Witness ==
  /\ Returned
  /\ \E sc \in Scopes, k \in Keys :
       /\ ExtrinsicsIn(changes.committed, sc, k) = {0, 1}
       /\ ExtrinsicsIn(changes.prospective, sc, k) = {0}
       /\ \E p \in Range(ScopePairs(sc)) :
            p.kind = "ExtrinsicIndex" /\ p.index.key = k /\ p.value = <<0, 0, 1>>

\* ---------------------------------------------------------------- C22
\* the window of the digest built at block d: the blocks after the previous
\* digest block of the same level and before d; empty when d builds no digest
Window(c, d) ==
  LET L == digest_level_at_block(c, d)
  IN IF L = 0 THEN {}
     ELSE {b \in 0..d : d - Pow(c.digest_interval, L) < b /\ b < d}

\* how often the digest built at n accounts for block b: once when it covers b
\* itself, and as often as the digests of the covered blocks whose window holds
\* b account for it
RECURSIVE Accounts(_, _, _)
RECURSIVE AccountsIn(_, _, _)
Accounts(c, n, b) == AccountsIn(c, CoveredList(c, n), b)
AccountsIn(c, covered, b) ==
  IF covered = <<>> THEN 0
  ELSE LET d == Head(covered)
       IN (IF d = b THEN 1 ELSE IF b \in Window(c, d) THEN Accounts(c, d, b) ELSE 0)
            + AccountsIn(c, Tail(covered), b)

\* the digest at n with configuration c is not skewed
NotSkewed(c, n) == c.end # Some(n)

\* the coverage of the digest at n is complete
CoverageComplete(c, n) ==
  /\ \A b \in Window(c, n) : Accounts(c, n, b) = 1
  /\ digest_level_at_block(c, n) = 1 =>
       CoveredList(c, n) = [j \in 1..(c.digest_interval - 1) |-> n - c.digest_interval + j]

\* C22: coverage completeness.  For a digest block N that is not skewed, of
\* level L, every block b with N - digest_interval^L < b < N is accounted for
\* exactly once: it is covered by the digest at N, or it lies in the window of
\* exactly one covered lower-level digest block, whose digest accounts for it
\* exactly once; for L = 1 the covered list is N - digest_interval + 1 .. N - 1.
\* This holds of the list the digest pass enumerates and of every configuration
\* at large.
C22_CoverageComplete ==
  /\ ((pc = "digest_fold" \/ Returned) /\ NotSkewed(config, number)) =>
       /\ digest_input_blocks = CoveredList(config, number)
       /\ CoverageComplete(config, number)
  /\ AtDigestStart =>
       \A n \in WidePending : \A c \in WideConfigs(n) :
         NotSkewed(c, n) => CoverageComplete(c, n)

\* a returned level-2 digest whose first block is accounted for by the
\* level-1 digest it covers, and a level-3 digest at large that accounts for
\* its first block through two lower levels
C22_Witness ==
  /\ Returned
  /\ NotSkewed(config, number)
  /\ digest_level_at_block(config, number) = 2
  /\ result[1].blocks = <<number - 2, number - 1>>
  /\ number - 3 \in Window(config, number - 2)
  /\ Accounts(config, number, number - 3) = 1
  /\ \E n \in WidePending : \E c \in WideConfigs(n) :
       /\ c.end = None
       /\ digest_level_at_block(c, n) = 3
       /\ CoveredList(c, n) = <<n - 4, n - 2, n - 1>>
       /\ Accounts(c, n, n - 7) = 1

\* ---------------------------------------------------------------- C23
\* the pairs a result r holds for scope `sc`
ScopePairsOf(r, sc) ==
  IF sc = TOP THEN r.top
  ELSE LET IsSc(c) == c.index.storage_key = sc
           cs == SelectSeq(r.children, IsSc)
       IN IF cs = <<>> THEN <<>> ELSE cs[1].pairs

\* the inputs with the data of every scope but `sc` erased: the overlay maps of
\* `sc`; of a block's trie the entries of the trie of `sc` and, for a child, the
\* ChildIndex entry that points to it; of a block's cache the keys under `sc`
OwnChangeSet(cs, sc) ==
  [top |-> IF sc = TOP THEN cs.top ELSE EmptyMap,
   children |-> [sk \in (DOMAIN cs.children) \cap {sc} |-> cs.children[sk]]]

OwnOverlay(ch, sc) ==
  [committed |-> OwnChangeSet(ch.committed, sc),
   prospective |-> OwnChangeSet(ch.prospective, sc)]

OwnTrie(trie, sc) ==
  {e \in trie : IF e.kind = "ChildIndex" THEN e.key = sc ELSE e.scope = sc}

OwnCache(cache, sc) == {i \in cache : i.scope = sc}

OwnRoots(rs, sc) ==
  [b \in DOMAIN rs |->
     [rs[b] EXCEPT !.trie = OwnTrie(@, sc), !.cache = OwnCache(@, sc)]]

\* the covered blocks at which the storage of scope `sc` mentions key `k`: the
\* cache of the block lists it under `sc`, or, without a cache entry, the trie
\* of `sc` at the block indexes it (a child trie being reached through its
\* ChildIndex)
MentionedAt(sc, k) ==
  {b \in DOMAIN roots :
     /\ roots[b].root = "some"
     /\ IF roots[b].cached
        THEN \E i \in roots[b].cache : i.scope = sc /\ i.key = k
        ELSE /\ \E e \in roots[b].trie :
                  e.scope = sc /\ e.key = k /\ e.ok /\ e.kind # "ChildIndex"
             /\ sc # TOP =>
                  \E e \in roots[b].trie : e.kind = "ChildIndex" /\ e.key = sc /\ e.ok}

\* C23: scope isolation.  In every returned result the pairs of a scope are
\* those prepare_input returns when the data of every other scope is erased
\* from the overlay, the tries and the caches, and that run returns nothing in
\* any other scope; an ExtrinsicIndex key of a scope has extrinsics in the
\* scope's own overlay maps, and a DigestIndex list of a scope holds block b only
\* if the scope's own trie or cache entry at b mentions the key.
C23_ScopeIsolation ==
  Returned =>
    \A sc \in Scopes :
      LET own == prepare_input(config, parent, OwnOverlay(changes, sc), backend,
                               OwnRoots(roots, sc))
          ps == ScopePairs(sc)
      IN /\ own.ok
         /\ ScopePairsOf(own, sc) = ps
         /\ \A other \in Scopes \ {sc} : ScopePairsOf(own, other) = <<>>
         /\ \A i \in 1..Len(ps) :
              IF ps[i].kind = "ExtrinsicIndex"
              THEN ExtrinsicsIn(changes.committed, sc, ps[i].index.key)
                     \cup ExtrinsicsIn(changes.prospective, sc, ps[i].index.key) # {}
              ELSE Range(ps[i].value) \subseteq MentionedAt(sc, ps[i].index.key)

\* the same key written in the top storage and in child 1 under different
\* extrinsics, and a covered block whose child trie of child 1 indexes a key
\* that the top trie does not: each sequence holds its own scope's pairs only
C23_Witness ==
  /\ Returned
  /\ \E t \in Range(result[1].top) : t.kind = "ExtrinsicIndex" /\ t.index.key = 1 /\ t.value = <<0>>
  /\ \E p \in Range(ScopePairs(1)) : p.kind = "ExtrinsicIndex" /\ p.index.key = 1 /\ p.value = <<1>>
  /\ PairKeys(ScopePairs(1), "DigestIndex") = {2}
  /\ PairKeys(result[1].top, "DigestIndex") = {}
  /\ ScopePairs(2) = <<>>
  /\ \E b \in DOMAIN roots :
       \E e \in roots[b].trie : e.scope = 1 /\ e.key = 2 /\ e.kind = "ExtrinsicIndex"

====
